---- MODULE Spec2Model ----
(***************************************************************************)
(* State-machine model of callContractMethod (src/unnamed/part_002), the   *)
(* submit-and-confirm engine of the Stellar NodeJS backend.                *)
(*                                                                         *)
(* One call of the async function is a sequential process; the steps of    *)
(* the process are the awaits of the function.  Each action completes one  *)
(* awaited operation with a result chosen by the environment (the Soroban  *)
(* RPC node, the timer) and then runs the synchronous code that follows it *)
(* up to the next await, the return or the throw.  trace[c] records, in    *)
(* order, every capability the call has invoked together with the answer   *)
(* it got.                                                                 *)
(***************************************************************************)
EXTENDS Integers, Sequences, FiniteSets, TLC

\* ---------------------------------------------------------------- constants

\* part_002:14-16
DEFAULT_MAX_ATTEMPTS == 5
DEFAULT_POLL_INTERVAL == 2000
DEFAULT_TX_TIMEOUT == 180

\* ------------------------------------------------------------------- bounds

\* account sequence numbers the node may report are 1..MaxSeq
MaxSeq == 2
\* a SUCCESS poll carries one of NumPayloads contract return values
NumPayloads == 2
\* an Authorization header has at most MaxHeaderLen characters
MaxHeaderLen == 3
\* the configured API key has at most MaxKeyLen characters
MaxKeyLen == 1

\* ------------------------------------------------------------ input domains

Calls == {1, 2}

ContractIds == {"", "C123", "notAStrKey"}
Methods     == {"", "increment"}
Secrets     == {"", "SA", "notASeed"}
ParamLists  == {<<"1">>, <<"Symbol()">>}

Payloads == {<<"scVal", n>> : n \in 1 .. NumPayloads}

\* a SUCCESS answer from which no return value can be read: it has no
\* resultMetaXdr, its meta is not a v3 meta, or the meta has no sorobanMeta
UnreadableMetas == {<<"noResultMetaXdr">>, <<"notV3">>, <<"noSorobanMeta">>}

\* answers of the node
HealthResults  == {"healthy", "404", "ECONNREFUSED", "error"}
SendStatuses   == {"PENDING", "DUPLICATE", "TRY_AGAIN_LATER", "ERROR",
                   "SUCCESS", "FAILED"}
PollStatuses   == {"SUCCESS", "FAILED", "NOT_FOUND", "UNKNOWN"}
NetworkOps     == {"getHealth", "getAccount", "prepareTransaction",
                   "sendTransaction", "getTransaction"}

NoValue == <<>>
NoHash  == <<>>
NoArgs  == [contractId |-> "", method |-> "", secret |-> "", parameters |-> <<>>]
NoOutcome == [kind |-> "none", err |-> "", detail |-> <<>>]
NoResponse == [status |-> "", hash |-> NoHash]
NoTx == [source |-> <<>>, sequence |-> 0, contractId |-> "", method |-> "",
         parameters |-> <<>>, maxTime |-> 0, prepared |-> FALSE,
         sorobanData |-> ""]

\* --------------------------------------------------------------------- state

VARIABLES
    pc,        \* pc[c]: the await the call is suspended at, "idle" or "done"
    args,      \* args[c]: contractId, method, secret, parameters of the call
    trace,     \* trace[c]: capabilities invoked so far, with their answers
    tx,        \* tx[c]: the transaction built by the call, or NoTx
    response,  \* response[c]: the sendTransaction response
    attempts,  \* attempts[c]: the loop counter of the polling loop
    outcome,   \* outcome[c]: what the call gave its caller
    cancelled, \* cancelled[c]: <<>>, or <<n>> once the caller has given the
               \* call up, n the getTransaction calls invoked until then
    http       \* the REST server of index.js: its API key and the requests
               \* it is serving

vars == <<pc, args, trace, tx, response, attempts, outcome, cancelled, http>>

Event(op, key, status, val) ==
    [op |-> op, key |-> key, status |-> status, val |-> val]

Return(v)          == [kind |-> "return", err |-> "", detail |-> <<v>>]

\* part_002:28,36-40,71-72,74,81,84,86-88  throw: the caller's promise rejects
Throw(err, detail) == [kind |-> "throw", err |-> err, detail |-> detail]


\* ---------------------------------------------------- the code, step by step

\* a variant of the validation that forgets the secret
MissingParameterNoSecret(a) ==
    a.contractId = "" \/ a.method = ""

\* part_002:27  if (!contractId || !method || !secret)
MissingParameter(a) ==
    a.contractId = "" \/ a.method = "" \/ a.secret = ""

\* a variant of the catch block that returns instead of throwing
HealthErrorSwallowed(r) == Return(NoValue)

\* part_002:34-40  the catch block around server.getHealth()
HealthError(r) ==
    IF r = "404" THEN Throw("EndpointNotFound", <<>>)
    ELSE IF r = "ECONNREFUSED" THEN Throw("UnableToConnect", <<>>)
    ELSE Throw("HealthCheckFailed", <<r>>)

\* part_002:43  Keypair.fromSecret(secret) throws on a string that is no seed
ValidSecret(s) == s = "SA"
PublicKey(s) == <<"publicKey", s>>

\* part_002:44  new Contract(contractId) throws on a string that is no strkey
ValidContractId(id) == id = "C123"

\* part_002:53  nativeToScVal throws on a value it has no encoding for
Encodable(p) == p # "Symbol()"

\* the seconds, by the clock of the process, in which a call may build its
\* transaction
Seconds == {1, 2}

\* the simulation results the node may attach to a transaction: footprint
\* and resource fee, which depend on the ledger the node simulates against
Simulations == {"ledgerA", "ledgerB"}

\* part_002:49-55  TransactionBuilder(...).addOperation(...).setTimeout(...).build()
\* build() gives the transaction the account's sequence number plus one;
\* setTimeout(n) sets the upper time bound to the second of the call plus n
BuildTransaction(a, seq, now) ==
    [source     |-> PublicKey(a.secret),
     sequence   |-> seq + 1,
     contractId |-> a.contractId,
     method     |-> a.method,
     parameters |-> a.parameters,
     maxTime    |-> now + DEFAULT_TX_TIMEOUT,
     prepared   |-> FALSE,
     sorobanData |-> ""]

\* part_002:57  server.prepareTransaction(transaction) answers with a copy of
\* the transaction that carries the simulation's footprint and resource fee
Prepare(t, data) == [t EXCEPT !.prepared = TRUE, !.sorobanData = data]

\* part_002:61,67  response.hash. The code computes no hash: it is part of
\* the node's answer to sendTransaction, and the node answers with the hash
\* of the envelope it was sent: equal for equal transactions, different for
\* transactions that differ in source, sequence number, operation, time
\* bounds or simulation data
TxHash(t) ==
    <<t.source, t.sequence, t.contractId, t.method, t.parameters, t.prepared,
      t.maxTime, t.sorobanData>>

\* a variant of the health check that lets an unclassified error through
HealthFailedOnlyKnown(r) == r \in {"404", "ECONNREFUSED"}

\* part_002:32-41  the catch block is entered, and throws, whenever
\* getHealth rejects
HealthFailed(r) == r # "healthy"

\* a variant of the signing step that forgets to sign
SignEventsNone(t) == <<>>

\* part_002:58  preparedTransaction.sign(sourceKeypair): local, no request
SignEvents(t) == <<Event("sign", TxHash(t), "", NoValue)>>

\* a variant of the poll key: the hash of the transaction as it was built,
\* before prepareTransaction
PollKeyUnprepared(resp) == [resp.hash EXCEPT ![6] = FALSE]

\* part_002:67  server.getTransaction(response.hash)
PollKey(resp) == resp.hash

\* a variant in which the loop counter is declared at module level, one
\* counter for all the calls
OwnModuleLevel(c) == CHOOSE d \in Calls : TRUE

\* part_002:64  let attempts = 0 is local to the call: call c reads and
\* writes its own counter
Own(c) == c

\* a variant that reports exhaustion as a failed transaction
TimeoutAsFailure(hash) ==
    Throw("TransactionFailed", <<NoValue, hash>>)

\* part_002:81  the error thrown when the loop runs out of attempts
TimeoutError(hash) ==
    Throw("PollingTimeout", <<DEFAULT_MAX_ATTEMPTS, hash>>)

\* a variant of the loop test that is off by one
LoopCondInclusive(a) == a <= DEFAULT_MAX_ATTEMPTS

\* part_002:66  while (attempts++ < DEFAULT_MAX_ATTEMPTS): the test
LoopCond(a) == a < DEFAULT_MAX_ATTEMPTS

\* a variant of the loop head that tests the counter and never increments it
LoopHeadNoIncrement(a, resp) ==
    IF LoopCond(a)
    THEN [pc |-> "getTransaction", attempts |-> a, outcome |-> NoOutcome,
          events |-> <<>>]
    ELSE [pc |-> "done", attempts |-> a,
          outcome |-> TimeoutError(resp.hash), events |-> <<>>]

\* part_002:66,81  the loop head: test, post-increment, and either the next
\* getTransaction or the timeout error after the loop
LoopHead(a, resp) ==
    IF LoopCond(a)
    THEN [pc |-> "getTransaction", attempts |-> a + 1, outcome |-> NoOutcome,
          events |-> <<>>]
    ELSE [pc |-> "done", attempts |-> a + 1,
          outcome |-> TimeoutError(resp.hash), events |-> <<>>]

UnexpectedStatus(resp) ==
    [pc |-> "done", attempts |-> 0,
     outcome |-> Throw("UnexpectedStatus", <<resp.status>>), events |-> <<>>]

\* variants of the branch after sendTransaction:
\* one that submits again when the node says TRY_AGAIN_LATER,
OnSendRetry(resp) ==
    IF resp.status = "PENDING" THEN LoopHead(0, resp)
    ELSE IF resp.status = "TRY_AGAIN_LATER"
    THEN [pc |-> "sendTransaction", attempts |-> 0, outcome |-> NoOutcome,
          events |-> <<>>]
    ELSE UnexpectedStatus(resp)

\* one that takes a success status at submission for the result,
OnSendImmediateSuccess(resp) ==
    IF resp.status = "PENDING" THEN LoopHead(0, resp)
    ELSE IF resp.status = "SUCCESS"
    THEN [pc |-> "done", attempts |-> 0, outcome |-> Return(NoValue),
          events |-> <<>>]
    ELSE UnexpectedStatus(resp)

\* one that polls unless the node reports an error,
OnSendPollUnlessError(resp) ==
    IF resp.status \notin {"ERROR", "FAILED"} THEN LoopHead(0, resp)
    ELSE UnexpectedStatus(resp)

\* and one that polls on DUPLICATE as on PENDING
OnSendDuplicatePolls(resp) ==
    IF resp.status \in {"PENDING", "DUPLICATE"} THEN LoopHead(0, resp)
    ELSE UnexpectedStatus(resp)

\* part_002:63-64,84  what follows the sendTransaction response
OnSend(resp) ==
    IF resp.status = "PENDING"
    THEN LoopHead(0, resp)
    ELSE UnexpectedStatus(resp)

\* part_002:77  await new Promise(resolve => setTimeout(resolve, interval))
SleepEvent == Event("sleep", NoHash, "", DEFAULT_POLL_INTERVAL)

\* part_002:71-72  status.resultMetaXdr.v3().sorobanMeta().returnValue():
\* the return value, or a TypeError when a link of the chain is missing
OnSuccess(a, st) ==
    IF st.val \in UnreadableMetas
    THEN [pc |-> "done", attempts |-> a,
          outcome |-> Throw("TypeError", st.val), events |-> <<>>]
    ELSE [pc |-> "done", attempts |-> a, outcome |-> Return(st.val),
          events |-> <<>>]

\* a variant of the switch that does not sleep after the last attempt
OnPollNoSleepOnLast(a, resp, st, callArgs) ==
    CASE st.status = "SUCCESS" -> OnSuccess(a, st)
      [] st.status = "FAILED" ->
            [pc |-> "done", attempts |-> a,
             outcome |-> Throw("TransactionFailed",
                               <<st.val, callArgs.contractId, callArgs.method>>),
             events |-> <<>>]
      [] st.status = "NOT_FOUND" /\ a < DEFAULT_MAX_ATTEMPTS ->
            [pc |-> "sleep", attempts |-> a, outcome |-> NoOutcome,
             events |-> <<SleepEvent>>]
      [] OTHER -> LoopHead(a, resp)

\* part_002:69-79  the switch on the getTransaction response; a status with no
\* case leaves the switch and goes back to the loop head
OnPoll(a, resp, st, callArgs) ==
    CASE st.status = "SUCCESS" -> OnSuccess(a, st)
      [] st.status = "FAILED" ->
            [pc |-> "done", attempts |-> a,
             outcome |-> Throw("TransactionFailed",
                               <<st.val, callArgs.contractId, callArgs.method>>),
             events |-> <<>>]
      [] st.status = "NOT_FOUND" ->
            [pc |-> "sleep", attempts |-> a, outcome |-> NoOutcome,
             events |-> <<SleepEvent>>]
      [] OTHER -> LoopHead(a, resp)

\* ------------------------------------------------ the REST server, index.js

\* the requests the server may be serving at the same time
Reqs == {1, 2}

\* a string is the sequence of its characters
Chars == {" ", "k"}
Strings(n) == UNION {[1 .. m -> Chars] : m \in 0 .. n}

\* the JavaScript value undefined: an absent header, an unset variable
Undefined == <<"undefined">>

Headers == Strings(MaxHeaderLen) \cup {Undefined}
ApiKeys == Strings(MaxKeyLen) \cup {Undefined}

\* index.js:37,56,91,132,167,198,230
Routes == {"/create-account", "/issue-asset", "/create-trustline",
           "/transfer-asset", "/show-balance", "/show-trustlines",
           "/show-issued-assets"}

\* what a request asks for: a POST on one of the routes, or a method or a
\* path no route is registered for
Targets == {<<"POST", route>> : route \in Routes}
               \cup {<<"GET", "/create-account">>, <<"POST", "/other">>}

\* index.js:37-230  every route is registered with app.post
Routed(target) == target[1] = "POST" /\ target[2] \in Routes

\* what express.json() makes of the body of a request: it rejects it
\* (malformed JSON, longer than the limit, unsupported charset or encoding),
\* or it sets req.body: to an object without the parameters the route asks
\* for, with a parameter no key or asset can be made from, or with all of
\* them well-formed
Bodies == {"malformed", "tooLarge", "unsupported", "empty", "invalid", "valid"}

\* index.js:15  app.use(express.json()) runs first on every request; a body
\* it rejects goes to the error handler of express, which answers with the
\* status of the error
JsonError(body) ==
    CASE body = "malformed"   -> <<400>>
      [] body = "tooLarge"    -> <<413>>
      [] body = "unsupported" -> <<415>>
      [] OTHER                -> <<>>

\* a variant of the route table with one route registered without the
\* middleware
RouteGuardedButLast(route) == route # "/show-issued-assets"

\* index.js:37,56,91,132,167,198,230  app.post(path, authenticateToken, ...)
RouteGuarded(route) == route \in Routes

\* index.js:58,93,134,169,200,232  the routes that answer 400 when a
\* parameter of the body is missing; /create-account takes none
ChecksBody(route) == route # "/create-account"

\* index.js:63-64,98-99,139-140  the routes that make a keypair and an asset
\* from the body before their first request: Keypair.fromSecret and
\* new Asset throw on a parameter that is no seed, code or key
SignsLocally(route) ==
    route \in {"/issue-asset", "/create-trustline", "/transfer-asset"}

\* the requests a handler awaits, one after the other: loadAccount and
\* submitTransaction on the routes that sign (index.js:65,79,100,113,141,155),
\* one axios.get or loadAccount on the others (index.js:40,174,205,237)
Awaits(route) == IF SignsLocally(route) THEN 2 ELSE 1

\* String.prototype.split(' '): the pieces between the single spaces
RECURSIVE Split(_)
Split(str) ==
    IF \E i \in DOMAIN str : str[i] = " "
    THEN LET i == CHOOSE k \in DOMAIN str :
                     str[k] = " " /\ \A j \in 1 .. (k - 1) : str[j] # " "
         IN  <<SubSeq(str, 1, i - 1)>> \o Split(SubSeq(str, i + 1, Len(str)))
    ELSE <<str>>

\* index.js:26-27  token = authHeader && authHeader.split(' ')[1]
\* a falsy header (undefined or the empty string) is the value of &&
Token(authHeader) ==
    IF authHeader = Undefined \/ authHeader = <<>> THEN authHeader
    ELSE IF Len(Split(authHeader)) >= 2 THEN Split(authHeader)[2]
    ELSE Undefined

\* index.js:28-30  the status the middleware answers with, <<>> for next()
AuthenticateToken(token, key) ==
    IF token = Undefined THEN <<401>>
    ELSE IF token # key THEN <<403>>
    ELSE <<>>

\* a request slot nothing has arrived on
NoRequest ==
    [pc |-> "idle", target |-> <<"", "">>, token |-> Undefined, body |-> "",
     statuses |-> <<>>, handlerRan |-> FALSE, network |-> 0]

NoServer ==
    [pc |-> "boot", apiKey |-> Undefined, reqs |-> [r \in Reqs |-> NoRequest]]

\* res.sendStatus / res.status().json(): the request is answered
Respond(req, status) ==
    [req EXCEPT !.pc = "responded", !.statuses = Append(@, status)]

\* index.js:37-40,56-65,91-100,132-141,167-174,198-205,230-237  a handler
\* from its first line to its first await
HandlerStart(req, route, body) ==
    LET ran == [req EXCEPT !.handlerRan = TRUE] IN
    IF ChecksBody(route) /\ body = "empty" THEN Respond(ran, 400)
    ELSE IF SignsLocally(route) /\ body = "invalid" THEN Respond(ran, 500)
    ELSE [ran EXCEPT !.pc = "await", !.network = 1]

\* index.js:15,25-31,37-237  the functions express calls for a request, in
\* the order they were registered, up to the answer or the first await
Dispatch(target, header, body, key) ==
    LET req == [NoRequest EXCEPT !.target = target, !.token = Token(header),
                                 !.body = body]
        answer == AuthenticateToken(req.token, key)
    IN  IF JsonError(body) # <<>> THEN Respond(req, JsonError(body)[1])
        ELSE IF ~Routed(target) THEN Respond(req, 404)
        ELSE IF RouteGuarded(target[2]) /\ answer # <<>>
        THEN Respond(req, answer[1])
        ELSE HandlerStart(req, target[2], body)

\* index.js:40-48,65-83,100-124,141-159,174-190,205-222,237-256  a handler
\* from the settling of an awaited request to the next await or the answer;
\* a throw of the code that follows a fulfilled request is caught like a
\* rejection and answered 500
HandlerResume(req, fulfilled) ==
    IF ~fulfilled THEN Respond(req, 500)
    ELSE IF req.network < Awaits(req.target[2])
    THEN [req EXCEPT !.network = @ + 1]
    ELSE Respond(req, 200)

\* --------------------------------------------------------------------- Init

Init ==
    /\ pc       = [c \in Calls |-> "idle"]
    /\ args     = [c \in Calls |-> NoArgs]
    /\ trace    = [c \in Calls |-> <<>>]
    /\ tx       = [c \in Calls |-> NoTx]
    /\ response = [c \in Calls |-> NoResponse]
    /\ attempts = [c \in Calls |-> 0]
    /\ outcome  = [c \in Calls |-> NoOutcome]
    /\ cancelled = [c \in Calls |-> <<>>]
    /\ http = NoServer

\* ------------------------------------------------------------------ actions

\* the call ends: it returns or throws
Finish(c, out) ==
    /\ pc' = [pc EXCEPT ![c] = "done"]
    /\ outcome' = [outcome EXCEPT ![c] = out]

\* part_002:25-33  the call is made: validation, then server.getHealth()
Invoke(c) ==
    /\ pc[c] = "idle"
    /\ \E a \in [contractId : ContractIds, method : Methods,
                 secret : Secrets, parameters : ParamLists] :
          /\ args' = [args EXCEPT ![c] = a]
          /\ IF MissingParameter(a)
             THEN Finish(c, Throw("MissingParameters", <<>>))
             ELSE /\ pc' = [pc EXCEPT ![c] = "getHealth"]
                  /\ UNCHANGED outcome
    /\ UNCHANGED <<trace, tx, response, attempts, cancelled, http>>

\* part_002:32-47  getHealth settles; keypair and contract objects are made;
\* server.getAccount() is called
GetHealth(c) ==
    /\ pc[c] = "getHealth"
    /\ \E r \in HealthResults :
          /\ trace' = [trace EXCEPT
                         ![c] = Append(@, Event("getHealth", NoHash, r, NoValue))]
          /\ IF HealthFailed(r)
             THEN Finish(c, HealthError(r))
             ELSE IF ~ValidSecret(args[c].secret)
             THEN Finish(c, Throw("InvalidSecret", <<>>))
             ELSE IF ~ValidContractId(args[c].contractId)
             THEN Finish(c, Throw("InvalidContractId", <<>>))
             ELSE /\ pc' = [pc EXCEPT ![c] = "getAccount"]
                  /\ UNCHANGED outcome
    /\ UNCHANGED <<args, tx, response, attempts, cancelled, http>>

\* part_002:47-57  getAccount settles; the transaction is built, in one of
\* the given seconds; server.prepareTransaction() is called
GetAccountAt(c, seconds) ==
    /\ pc[c] = "getAccount"
    /\ \E r \in {0} \cup (1 .. MaxSeq), now \in seconds :   \* 0: the lookup is rejected
          LET key == PublicKey(args[c].secret)
              ev  == IF r = 0
                     THEN Event("getAccount", key, "rejected", NoValue)
                     ELSE Event("getAccount", key, "ok", <<r>>)
          IN  /\ trace' = [trace EXCEPT ![c] = Append(@, ev)]
              /\ IF r = 0
                 THEN /\ Finish(c, Throw("AccountLookupFailed", <<key>>))
                      /\ UNCHANGED tx
                 ELSE IF \E i \in DOMAIN args[c].parameters :
                            ~Encodable(args[c].parameters[i])
                 THEN /\ Finish(c, Throw("EncodingFailed", <<>>))
                      /\ UNCHANGED tx
                 ELSE /\ tx' = [tx EXCEPT ![c] = BuildTransaction(args[c], r, now)]
                      /\ pc' = [pc EXCEPT ![c] = "prepareTransaction"]
                      /\ UNCHANGED outcome
    /\ UNCHANGED <<args, response, attempts, cancelled, http>>

\* the calls of Spec build their transactions within one second
GetAccount(c) == GetAccountAt(c, {1})

\* part_002:57-61  prepareTransaction settles, with one of the given
\* simulation results; the transaction is signed; server.sendTransaction()
\* is called
PrepareTransactionWith(c, simulations) ==
    /\ pc[c] = "prepareTransaction"
    /\ \E r \in {"ok", "rejected"}, data \in simulations :
          LET ev == Event("prepareTransaction", TxHash(tx[c]), r, NoValue)
          IN  IF r = "rejected"
              THEN /\ trace' = [trace EXCEPT ![c] = Append(@, ev)]
                   /\ Finish(c, Throw("PrepareFailed", <<>>))
                   /\ UNCHANGED tx
              ELSE /\ tx' = [tx EXCEPT ![c] = Prepare(@, data)]
                   /\ trace' = [trace EXCEPT
                         ![c] = Append(@, ev) \o SignEvents(Prepare(tx[c], data))]
                   /\ pc' = [pc EXCEPT ![c] = "sendTransaction"]
                   /\ UNCHANGED outcome
    /\ UNCHANGED <<args, response, attempts, cancelled, http>>

\* the node of Spec simulates the calls against one ledger
PrepareTransaction(c) == PrepareTransactionWith(c, {"ledgerA"})

\* part_002:61-67,84  sendTransaction settles; on PENDING the loop is entered
\* and server.getTransaction() is called
SendTransaction(c) ==
    /\ pc[c] = "sendTransaction"
    /\ \E r \in SendStatuses \cup {"rejected"} :
          LET resp == [status |-> r, hash |-> TxHash(tx[c])]
              ev   == Event("sendTransaction", resp.hash, r, NoValue)
              nxt  == OnSend(resp)
          IN  /\ trace' = [trace EXCEPT ![c] = Append(@, ev)]
              /\ IF r = "rejected"
                 THEN /\ Finish(c, Throw("SendFailed", <<>>))
                      /\ UNCHANGED <<response, attempts>>
                 ELSE /\ response' = [response EXCEPT ![c] = resp]
                      /\ attempts' = [attempts EXCEPT ![Own(c)] = nxt.attempts]
                      /\ pc' = [pc EXCEPT ![c] = nxt.pc]
                      /\ outcome' = [outcome EXCEPT ![c] = nxt.outcome]
    /\ UNCHANGED <<args, tx, cancelled, http>>

PollResponses ==
    [status : {"SUCCESS"}, val : Payloads \cup UnreadableMetas]
        \cup [status : (PollStatuses \ {"SUCCESS"}) \cup {"rejected"},
              val : {NoValue}]

\* part_002:67-81  getTransaction settles, with one of the given answers,
\* and the switch runs
GetTransactionFrom(c, answers) ==
    /\ pc[c] = "getTransaction"
    /\ \E st \in answers :
          LET ev  == Event("getTransaction", PollKey(response[c]),
                           st.status, st.val)
              nxt == OnPoll(attempts[Own(c)], response[c], st, args[c])
          IN  IF st.status = "rejected"
              THEN /\ trace' = [trace EXCEPT ![c] = Append(@, ev)]
                   /\ Finish(c, Throw("PollFailed", <<>>))
                   /\ UNCHANGED attempts
              ELSE /\ trace' = [trace EXCEPT ![c] = Append(@, ev) \o nxt.events]
                   /\ attempts' = [attempts EXCEPT ![Own(c)] = nxt.attempts]
                   /\ pc' = [pc EXCEPT ![c] = nxt.pc]
                   /\ outcome' = [outcome EXCEPT ![c] = nxt.outcome]
    /\ UNCHANGED <<args, tx, response, cancelled, http>>

GetTransaction(c) == GetTransactionFrom(c, PollResponses)

\* part_002:77-78,66,81  the timer fires; continue: back to the loop head
Sleep(c) ==
    /\ pc[c] = "sleep"
    /\ LET nxt == LoopHead(attempts[Own(c)], response[c])
       IN  /\ attempts' = [attempts EXCEPT ![Own(c)] = nxt.attempts]
           /\ pc' = [pc EXCEPT ![c] = nxt.pc]
           /\ outcome' = [outcome EXCEPT ![c] = nxt.outcome]
    /\ UNCHANGED <<args, trace, tx, response, cancelled, http>>

Next ==
    \E c \in Calls :
        \/ Invoke(c)
        \/ GetHealth(c)
        \/ GetAccount(c)
        \/ PrepareTransaction(c)
        \/ SendTransaction(c)
        \/ GetTransaction(c)
        \/ Sleep(c)

Spec == Init /\ [][Next]_vars


\* every awaited operation settles and every timer fires: the RPC client
\* resolves or rejects each request, and setTimeout always calls back
Settle(c) ==
    \/ GetHealth(c)
    \/ GetAccount(c)
    \/ PrepareTransaction(c)
    \/ SendTransaction(c)
    \/ GetTransaction(c)
    \/ Sleep(c)

\* one call on its own: the second caller never calls
Solo == {1}

SoloNext ==
    \E c \in Solo :
        \/ Invoke(c)
        \/ GetHealth(c)
        \/ GetAccount(c)
        \/ PrepareTransaction(c)
        \/ SendTransaction(c)
        \/ GetTransaction(c)
        \/ Sleep(c)

SoloFairSpec ==
    Init /\ [][SoloNext]_vars /\ \A c \in Solo : WF_vars(Settle(c))

\* ------------------------------------------------------ reading the trace

Count(tr, op) == Cardinality({i \in DOMAIN tr : tr[i].op = op})

\* the getTransaction calls a call has invoked, the one in flight included
PollsInvoked(c) ==
    Count(trace[c], "getTransaction")
        + (IF pc[c] = "getTransaction" THEN 1 ELSE 0)

\* ------------------------------------------------- the caller's deadline

\* part_002:25  the caller of a call that is in the polling loop reaches its
\* overall deadline and gives the call up. callContractMethod takes no
\* signal, deadline or token and returns no handle, only the promise:
\* nothing the caller does reaches the call.
Cancel(c) ==
    /\ pc[c] \in {"getTransaction", "sleep"}
    /\ cancelled[c] = <<>>
    /\ cancelled' = [cancelled EXCEPT ![c] = <<PollsInvoked(c)>>]
    /\ UNCHANGED <<pc, args, trace, tx, response, attempts, outcome, http>>

CancelNext ==
    \E c \in Solo :
        \/ Invoke(c)
        \/ GetHealth(c)
        \/ GetAccount(c)
        \/ PrepareTransaction(c)
        \/ SendTransaction(c)
        \/ GetTransaction(c)
        \/ Sleep(c)
        \/ Cancel(c)

CancelSpec == Init /\ [][CancelNext]_vars

\* ------------------------------------------- calls on one account over time

\* the answers of a node on which the transaction is not confirmed
Unconfirmed == {st \in PollResponses : st.status \in {"NOT_FOUND", "FAILED"}}

\* two calls whose transactions may be built in different seconds and
\* simulated against different ledgers; what a call does with a confirmed
\* transaction has no part in which hash it polls, so the polls are
\* answered NOT_FOUND or FAILED
HashNext ==
    \E c \in Calls :
        \/ Invoke(c)
        \/ GetHealth(c)
        \/ GetAccountAt(c, Seconds)
        \/ PrepareTransactionWith(c, Simulations)
        \/ SendTransaction(c)
        \/ GetTransactionFrom(c, Unconfirmed)
        \/ Sleep(c)

HashSpec == Init /\ [][HashNext]_vars

\* --------------------------------------------------- serving REST requests

CallVars == <<pc, args, trace, tx, response, attempts, outcome, cancelled>>

\* index.js:17,260  the server starts with the API_KEY of its environment
Listen ==
    /\ http.pc = "boot"
    /\ \E key \in ApiKeys :
          http' = [http EXCEPT !.pc = "listening", !.apiKey = key]
    /\ UNCHANGED CallVars

\* index.js:15-237  a request has arrived and its body has been read: the
\* body parser, the middleware and the handler run, without interruption, up
\* to the answer or to the handler's first await
Receive(r) ==
    /\ http.pc = "listening"
    /\ http.reqs[r].pc = "idle"
    /\ \E target \in Targets, header \in Headers, body \in Bodies :
          http' = [http EXCEPT
                     !.reqs[r] = Dispatch(target, header, body, http.apiKey)]
    /\ UNCHANGED CallVars

\* index.js:40,65,79,100,113,141,155,174,205,237  the request a handler
\* awaits settles and the handler runs on
Resume(r) ==
    /\ http.reqs[r].pc = "await"
    /\ \E fulfilled \in BOOLEAN :
          http' = [http EXCEPT
                     !.reqs[r] = HandlerResume(http.reqs[r], fulfilled)]
    /\ UNCHANGED CallVars

\* the answer has been sent and the request is over
Close(r) ==
    /\ http.reqs[r].pc = "responded"
    /\ http' = [http EXCEPT !.reqs[r] = NoRequest]
    /\ UNCHANGED CallVars

AuthNext ==
    \/ Listen
    \/ \E r \in Reqs :
          \/ Receive(r)
          \/ Resume(r)
          \/ Close(r)

AuthSpec == Init /\ [][AuthNext]_vars

IsPoll(e) == e.op = "getTransaction"
Polls(c) == SelectSeq(trace[c], IsPoll)

\* the status sendTransaction answered with, "" before it has answered
Submitted(c) == \E i \in DOMAIN trace[c] : trace[c][i].op = "sendTransaction"
SendStatus(c) ==
    IF Submitted(c)
    THEN (CHOOSE e \in {trace[c][i] : i \in DOMAIN trace[c]} :
              e.op = "sendTransaction").status
    ELSE ""

\* the first k polls answered NOT_FOUND
NotFoundUpTo(P, k) == \A i \in 1 .. k : P[i].status = "NOT_FOUND"


\* --------------------------------------------------------------- properties

\* C1: a call invokes getTransaction at most DEFAULT_MAX_ATTEMPTS times, and a
\* getTransaction response of SUCCESS or FAILED is the last thing the call
\* does: nothing is invoked after it and the call has ended.
C1_PollsBoundedAndStopAtTerminal ==
    \A c \in Calls :
        /\ Count(trace[c], "getTransaction") <= DEFAULT_MAX_ATTEMPTS
        /\ \A i \in DOMAIN trace[c] :
              (IsPoll(trace[c][i]) /\ trace[c][i].status \in {"SUCCESS", "FAILED"})
                  => (i = Len(trace[c]) /\ pc[c] = "done")

\* a call whose last of DEFAULT_MAX_ATTEMPTS polls answered FAILED
C1_Witness ==
    \E c \in Calls :
        /\ Count(trace[c], "getTransaction") = DEFAULT_MAX_ATTEMPTS
        /\ trace[c][Len(trace[c])].status = "FAILED"
        /\ pc[c] = "done"

\* C2: sendTransaction is invoked at most once, exactly once in a call that
\* got past submission, and after it the call invokes neither sendTransaction
\* nor getAccount nor sign again.
C2_SubmittedExactlyOnce ==
    \A c \in Calls :
        /\ Count(trace[c], "sendTransaction") <= 1
        /\ (pc[c] \in {"getTransaction", "sleep"} \/ response[c] # NoResponse)
              => Count(trace[c], "sendTransaction") = 1
        /\ \A i, j \in DOMAIN trace[c] :
              (trace[c][i].op = "sendTransaction" /\ i < j)
                  => trace[c][j].op \notin {"sendTransaction", "getAccount", "sign"}

\* a call that was submitted once and then polled to exhaustion
C2_Witness ==
    \E c \in Calls :
        /\ pc[c] = "done"
        /\ outcome[c].err = "PollingTimeout"
        /\ Count(trace[c], "sendTransaction") = 1
        /\ Count(trace[c], "getTransaction") = DEFAULT_MAX_ATTEMPTS

\* C3: from submission on a call makes at most DEFAULT_MAX_ATTEMPTS + 1
\* network calls (one sendTransaction and the getTransaction calls), whatever
\* the poll statuses, and a call that has reached submission ends.
C3_BoundedTermination ==
    /\ [](\A c \in Calls :
            Count(trace[c], "sendTransaction") + Count(trace[c], "getTransaction")
                <= DEFAULT_MAX_ATTEMPTS + 1)
    /\ \A c \in Calls : (pc[c] = "sendTransaction") ~> (pc[c] = "done")

\* a call that ended after DEFAULT_MAX_ATTEMPTS + 1 network calls, one of
\* them a poll with an unrecognised status
C3_Witness ==
    \E c \in Calls :
        /\ pc[c] = "done"
        /\ Count(trace[c], "sendTransaction") + Count(trace[c], "getTransaction")
              = DEFAULT_MAX_ATTEMPTS + 1
        /\ \E i \in DOMAIN trace[c] : trace[c][i].status = "UNKNOWN"


\* C4: NOT_FOUND is the only poll status on which the loop goes on: a
\* getTransaction response whose status is none of SUCCESS, FAILED and
\* NOT_FOUND is the last thing the call does, and the call ends with an error.
C4_OnlyNotFoundContinues ==
    \A c \in Calls :
        \A i \in DOMAIN trace[c] :
            (IsPoll(trace[c][i])
               /\ trace[c][i].status \in PollStatuses
                                           \ {"SUCCESS", "FAILED", "NOT_FOUND"})
                => /\ i = Len(trace[c])
                   /\ pc[c] = "done"
                   /\ outcome[c].kind = "throw"

\* C5 as stated: a success status at submission ends the call with a success
\* result, a rejection at submission ends it with an error; neither polls.
C5_ImmediateTerminalClassified ==
    \A c \in Calls :
        /\ response[c].status = "SUCCESS"
              => (pc[c] = "done" /\ outcome[c].kind = "return"
                    /\ Len(Polls(c)) = 0)
        /\ response[c].status \in {"ERROR", "FAILED"}
              => (pc[c] = "done" /\ outcome[c].kind = "throw"
                    /\ Len(Polls(c)) = 0)

\* C5 amended: whatever status other than PENDING sendTransaction answers
\* with, a success status included, the call ends there with the error
\* "Unexpected transaction status: <status>"; no submission status gives a
\* success result.
C5_NonPendingIsUnexpectedStatus ==
    \A c \in Calls :
        response[c].status \notin {"", "PENDING"}
            => /\ pc[c] = "done"
               /\ outcome[c] = [kind |-> "throw", err |-> "UnexpectedStatus",
                                detail |-> <<response[c].status>>]
               /\ trace[c][Len(trace[c])].op = "sendTransaction"

\* a call whose submission was answered with SUCCESS
C5_Witness ==
    \E c \in Calls :
        /\ response[c].status = "SUCCESS"
        /\ pc[c] = "done"
        /\ outcome[c].kind = "throw"

\* C6: when sendTransaction fails, or answers with a status other than
\* PENDING, the call never invokes getTransaction.
C6_NoPollUnlessPending ==
    \A c \in Calls :
        (Submitted(c) /\ SendStatus(c) # "PENDING")
            => (Count(trace[c], "getTransaction") = 0
                  /\ pc[c] \notin {"getTransaction", "sleep"})

\* a call whose submission was answered with ERROR
C6_Witness ==
    \E c \in Calls :
        /\ SendStatus(c) = "ERROR"
        /\ pc[c] = "done"

\* C7 as stated: after a DUPLICATE acknowledgement the call is in the polling
\* loop or has polled.
C7_DuplicatePolls ==
    \A c \in Calls :
        response[c].status = "DUPLICATE"
            => (pc[c] \in {"getTransaction", "sleep"} \/ Len(Polls(c)) >= 1)

\* C7 amended: a DUPLICATE acknowledgement is not treated like PENDING: the
\* loop is not entered, no getTransaction is invoked, and the call ends at
\* submission with the "Unexpected transaction status" error.
C7_DuplicateEndsAtSubmission ==
    \A c \in Calls :
        response[c].status = "DUPLICATE"
            => /\ attempts[c] = 0
               /\ Len(Polls(c)) = 0
               /\ pc[c] = "done"
               /\ outcome[c].kind = "throw"
               /\ outcome[c].err = "UnexpectedStatus"

\* a call whose submission was answered with DUPLICATE
C7_Witness ==
    \E c \in Calls :
        /\ response[c].status = "DUPLICATE"
        /\ pc[c] = "done"

\* C8: a call whose submission was PENDING and whose DEFAULT_MAX_ATTEMPTS
\* polls all answered NOT_FOUND ends with the polling-timeout error, which
\* carries the hash; that is not the error of a FAILED poll, which is
\* "Transaction failed".
C8_ExhaustionIsTimeoutNotFailure ==
    \A c \in Calls :
        LET P == Polls(c) IN
        /\ (pc[c] = "done" /\ SendStatus(c) = "PENDING"
              /\ Len(P) = DEFAULT_MAX_ATTEMPTS
              /\ NotFoundUpTo(P, DEFAULT_MAX_ATTEMPTS))
              => /\ outcome[c].kind = "throw"
                 /\ outcome[c].err = "PollingTimeout"
                 /\ outcome[c].detail[2] = response[c].hash
                 /\ response[c].hash = TxHash(tx[c])
        /\ (Len(P) >= 1 /\ P[Len(P)].status = "FAILED")
              => /\ outcome[c].kind = "throw"
                 /\ outcome[c].err = "TransactionFailed"

\* a call that has ended after DEFAULT_MAX_ATTEMPTS NOT_FOUND polls
C8_Witness ==
    \E c \in Calls :
        /\ pc[c] = "done"
        /\ Len(Polls(c)) = DEFAULT_MAX_ATTEMPTS
        /\ NotFoundUpTo(Polls(c), DEFAULT_MAX_ATTEMPTS)

\* C9: if the first k-1 polls answer NOT_FOUND and poll k answers SUCCESS,
\* the call has ended with exactly k getTransaction calls and k-1 sleeps of
\* DEFAULT_POLL_INTERVAL, and returns the value of the k-th response. The
\* code does so only when the return value can be read from the response.
C9_SuccessAtPollK ==
    \A c \in Calls :
        LET P == Polls(c) IN
        \A k \in 1 .. DEFAULT_MAX_ATTEMPTS :
            (Len(P) >= k /\ NotFoundUpTo(P, k - 1) /\ P[k].status = "SUCCESS")
                => /\ pc[c] = "done"
                   /\ Count(trace[c], "getTransaction") = k
                   /\ Count(trace[c], "sleep") = k - 1
                   /\ \A i \in DOMAIN trace[c] :
                         trace[c][i].op = "sleep"
                             => trace[c][i].val = DEFAULT_POLL_INTERVAL
                   /\ outcome[c] = [kind |-> "return", err |-> "",
                                    detail |-> <<P[k].val>>]

\* C10: a call made with contractId, method or secret missing throws the
\* validation error and invokes nothing at all.
C10_ValidationBeforeNetwork ==
    \A c \in Calls :
        (pc[c] # "idle"
           /\ (args[c].contractId = "" \/ args[c].method = ""
                 \/ args[c].secret = ""))
            => /\ pc[c] = "done"
               /\ outcome[c].kind = "throw"
               /\ outcome[c].err = "MissingParameters"
               /\ trace[c] = <<>>

\* a call made with only the secret missing
C10_Witness ==
    \E c \in Calls :
        /\ pc[c] = "done"
        /\ args[c].secret = ""
        /\ args[c].contractId # ""
        /\ args[c].method # ""


\* C11: a failed health check and a failed sendTransaction both end the call
\* with an error at once: the failed operation is not invoked again, no
\* getTransaction is invoked, and after a failed health check nothing else,
\* sendTransaction included, is invoked.
C11_TransportFailureFailsFast ==
    \A c \in Calls :
        /\ (\E i \in DOMAIN trace[c] :
               trace[c][i].op = "getHealth" /\ trace[c][i].status # "healthy")
              => /\ pc[c] = "done"
                 /\ outcome[c].kind = "throw"
                 /\ Len(trace[c]) = 1
        /\ (\E i \in DOMAIN trace[c] :
               trace[c][i].op = "sendTransaction"
                   /\ trace[c][i].status = "rejected")
              => /\ pc[c] = "done"
                 /\ outcome[c].kind = "throw"
                 /\ Count(trace[c], "sendTransaction") = 1
                 /\ Count(trace[c], "getTransaction") = 0
                 /\ trace[c][Len(trace[c])].op = "sendTransaction"

\* one call ended by a refused health check, another by a failed submission
C11_Witness ==
    \E c, d \in Calls :
        /\ pc[c] = "done"
        /\ Len(trace[c]) = 1
        /\ trace[c][1].op = "getHealth"
        /\ trace[c][1].status = "ECONNREFUSED"
        /\ pc[d] = "done"
        /\ Len(trace[d]) > 0
        /\ trace[d][Len(trace[d])].op = "sendTransaction"
        /\ trace[d][Len(trace[d])].status = "rejected"

\* C12: every getTransaction of a call comes after that call's sendTransaction
\* was answered PENDING, and its key is the hash of that answer; so all the
\* polls of a call have the same key.
C12_PollKeyIsSubmissionHash ==
    \A c \in Calls :
        /\ pc[c] \in {"getTransaction", "sleep"} => SendStatus(c) = "PENDING"
        /\ \A i \in DOMAIN trace[c] :
              IsPoll(trace[c][i])
                  => \E j \in 1 .. (i - 1) :
                        /\ trace[c][j].op = "sendTransaction"
                        /\ trace[c][j].status = "PENDING"
                        /\ trace[c][j].key = trace[c][i].key
                        /\ response[c].hash = trace[c][i].key

\* a call that has polled the hash of its submission twice
C12_Witness ==
    \E c \in Calls :
        /\ Len(Polls(c)) >= 2
        /\ \A i \in 1 .. Len(Polls(c)) : Polls(c)[i].key = response[c].hash
        /\ response[c].hash # NoHash

\* C13: a call that has not ended has given its caller nothing; a call that
\* has ended has returned or thrown, and it has returned exactly when one of
\* its polls answered SUCCESS; on every other path it has thrown an error.
\* The code throws on a SUCCESS poll whose return value cannot be read.
C13_ReturnsIffPollSucceeded ==
    \A c \in Calls :
        LET P == Polls(c) IN
        /\ pc[c] # "done" => outcome[c] = NoOutcome
        /\ pc[c] = "done"
              => /\ outcome[c].kind \in {"return", "throw"}
                 /\ outcome[c].kind = "return"
                       <=> (\E i \in 1 .. Len(P) : P[i].status = "SUCCESS")
                 /\ outcome[c].kind = "throw" => outcome[c].err # ""


\* the hashes a call has polled
PolledKeys(c) == {trace[c][i].key : i \in {j \in DOMAIN trace[c] : IsPoll(trace[c][j])}}

\* C14: no two calls ever invoke getTransaction for the same hash, not even
\* two calls on the same account that read the same sequence number. The
\* code keeps no record of the hashes being polled and takes no lock: two
\* calls that build the same transaction both poll its hash.
C14_NoHashPolledTwice ==
    \A c, d \in Calls :
        c # d => PolledKeys(c) \cap PolledKeys(d) = {}


\* everything the model holds about one call
CallState(c) ==
    <<pc[c], args[c], trace[c], tx[c], response[c], attempts[c], outcome[c]>>

\* C15: while a call is suspended in its sleep, every other call that has not
\* ended can take its next step; a step of one call changes nothing of any
\* other call; and two calls made with the same arguments that got the same
\* answers to their own requests ended the same way.
C15_SleepDoesNotStall ==
    /\ [](\A c, d \in Calls :
            (c # d /\ pc[c] = "sleep" /\ pc[d] # "done")
                => ENABLED (Invoke(d) \/ Settle(d)))
    /\ [][\A c, d \in Calls :
            (c # d /\ CallState(c)' # CallState(c))
                => CallState(d)' = CallState(d)]_vars
    /\ [](\A c, d \in Calls :
            (pc[c] = "done" /\ pc[d] = "done"
               /\ args[c] = args[d] /\ trace[c] = trace[d])
                => outcome[c] = outcome[d])

\* one call in its first sleep while the other is already in its third
C15_Witness ==
    \E c, d \in Calls :
        /\ pc[c] = "sleep"
        /\ Count(trace[c], "sleep") = 1
        /\ pc[d] = "sleep"
        /\ Count(trace[d], "sleep") = 3


\* C16: once the caller has cancelled a call that is in the polling loop, the
\* call invokes no further getTransaction, and it ends with the polling
\* timeout.
C16_CancelStopsPolling ==
    \A c \in Calls :
        cancelled[c] # <<>>
            => /\ PollsInvoked(c) = cancelled[c][1]
               /\ pc[c] = "done" => outcome[c].err = "PollingTimeout"


\* the call has invoked sendTransaction: the request is in flight or answered
ReachedSubmission(c) == pc[c] = "sendTransaction" \/ Submitted(c)

\* the operations a call invoked after its first getAccount and before its
\* sendTransaction, in order
BetweenReadAndSubmit(c) ==
    LET tr    == trace[c]
        read  == CHOOSE i \in DOMAIN tr :
                    /\ tr[i].op = "getAccount"
                    /\ \A j \in 1 .. (i - 1) : tr[j].op # "getAccount"
        sends == {i \in DOMAIN tr : tr[i].op = "sendTransaction"}
        stop  == IF sends = {} THEN Len(tr) + 1
                 ELSE CHOOSE i \in sends : \A j \in sends : i <= j
    IN  [k \in 1 .. (stop - read - 1) |-> tr[read + k].op]

\* C17 as stated: getAccount is the only remote call of building and signing:
\* a call that reached submission read the account once and invoked no
\* network operation between that read and sendTransaction.
C17_OnlyAccountReadBeforeSubmit ==
    \A c \in Calls :
        ReachedSubmission(c)
            => /\ Count(trace[c], "getAccount") = 1
               /\ \A k \in DOMAIN BetweenReadAndSubmit(c) :
                     BetweenReadAndSubmit(c)[k] \notin NetworkOps

\* C17 amended: a call that reached submission read the account exactly once,
\* and between that read and sendTransaction it invoked exactly one remote
\* call, prepareTransaction, followed by the local signing, and nothing else.
C17_ReadThenPrepareThenSign ==
    \A c \in Calls :
        ReachedSubmission(c)
            => /\ Count(trace[c], "getAccount") = 1
               /\ BetweenReadAndSubmit(c) = <<"prepareTransaction", "sign">>

\* a call that has been submitted and answered
C17_Witness ==
    \E c \in Calls :
        /\ Submitted(c)
        /\ Count(trace[c], "prepareTransaction") = 1
        /\ Count(trace[c], "sign") = 1
        /\ pc[c] = "getTransaction"


\* the network operations of a call, in the order of the code
Rank(op) ==
    CASE op = "getHealth"          -> 1
      [] op = "getAccount"         -> 2
      [] op = "prepareTransaction" -> 3
      [] op = "sendTransaction"    -> 4
      [] op = "getTransaction"     -> 5

IsNetwork(e) == e.op \in NetworkOps
NetTrace(c) == SelectSeq(trace[c], IsNetwork)

\* the awaited request was answered, not rejected
Succeeded(e) ==
    CASE e.op = "getHealth" -> e.status = "healthy"
      [] OTHER              -> e.status \notin {"rejected"}

\* op may be invoked next after the network operations N
MayFollow(N, op) ==
    IF N = <<>> THEN op = "getHealth"
    ELSE /\ Succeeded(N[Len(N)])
         /\ \/ Rank(op) = Rank(N[Len(N)].op) + 1
            \/ op = "getTransaction" /\ N[Len(N)].op = "getTransaction"

\* C19: the network operations of a call happen in the order getHealth,
\* getAccount, prepareTransaction, sendTransaction, getTransaction, none is
\* skipped, each of the first four happens at most once, and an operation is
\* invoked only after the one before it has succeeded: a failed operation is
\* the last one of the call.
C19_FixedOrderOfOperations ==
    \A c \in Calls :
        LET N == NetTrace(c) IN
        /\ \A i \in 1 .. Len(N) : MayFollow(SubSeq(N, 1, i - 1), N[i].op)
        /\ pc[c] \in NetworkOps => MayFollow(N, pc[c])
        /\ \A i \in 1 .. Len(N) : ~Succeeded(N[i]) => (i = Len(N) /\ pc[c] = "done")

\* a call that went through all five operations, and one stopped by a
\* failed account lookup
C19_Witness ==
    \E c, d \in Calls :
        /\ pc[c] = "done"
        /\ {NetTrace(c)[i].op : i \in 1 .. Len(NetTrace(c))} = NetworkOps
        /\ pc[d] = "done"
        /\ Len(NetTrace(d)) = 2
        /\ NetTrace(d)[2].status = "rejected"


\* C20: in every state the sleeps of a call are as many as its NOT_FOUND
\* polls: each NOT_FOUND poll, the last one included, is directly followed by
\* a sleep, and each sleep directly follows a NOT_FOUND poll, never a SUCCESS,
\* FAILED or unrecognised one. A call whose DEFAULT_MAX_ATTEMPTS polls all
\* answered NOT_FOUND slept DEFAULT_MAX_ATTEMPTS times, and while it sleeps
\* it has not yet reported anything.
C20_SleepAfterEveryNotFound ==
    \A c \in Calls :
        LET tr == trace[c]
            nf == {i \in DOMAIN tr : IsPoll(tr[i]) /\ tr[i].status = "NOT_FOUND"}
        IN
        /\ Count(tr, "sleep") = Cardinality(nf)
        /\ \A i \in nf : i < Len(tr) /\ tr[i + 1].op = "sleep"
        /\ \A i \in DOMAIN tr : tr[i].op = "sleep" => (i - 1) \in nf
        /\ pc[c] = "sleep"
              => (outcome[c] = NoOutcome /\ tr[Len(tr)].op = "sleep")
        /\ (pc[c] = "done" /\ Cardinality(nf) = DEFAULT_MAX_ATTEMPTS)
              => /\ Count(tr, "sleep") = DEFAULT_MAX_ATTEMPTS
                 /\ tr[Len(tr)].op = "sleep"
                 /\ outcome[c].err = "PollingTimeout"

\* a call that timed out after as many sleeps as attempts, and a call that
\* polled an unrecognised status and did not sleep after it
C20_Witness ==
    \E c, d \in Calls :
        /\ pc[c] = "done"
        /\ outcome[c].err = "PollingTimeout"
        /\ Count(trace[c], "sleep") = DEFAULT_MAX_ATTEMPTS
        /\ Len(trace[d]) > 1
        /\ trace[d][Len(trace[d])].status = "UNKNOWN"
        /\ trace[d][Len(trace[d]) - 1].op = "sleep"
        /\ pc[d] = "getTransaction"


\* C18 as stated: on every route the handler, and with it every Stellar or
\* friendbot request, runs only for a request whose token equals the
\* configured API key; a request without a token is answered 401 and one with
\* another token 403, in both cases with that one response and without the
\* handler.
C18_EveryRouteAuthenticated ==
    \A r \in Reqs :
        LET req == http.reqs[r] IN
        /\ req.handlerRan => (req.token = http.apiKey /\ req.token # Undefined)
        /\ req.network > 0 => req.handlerRan
        /\ Len(req.statuses) <= 1
        /\ (req.pc = "responded" /\ Routed(req.target) /\ req.token = Undefined)
              => (req.statuses = <<401>> /\ ~req.handlerRan)
        /\ (req.pc = "responded" /\ Routed(req.target)
              /\ req.token # Undefined /\ req.token # http.apiKey)
              => (req.statuses = <<403>> /\ ~req.handlerRan)

\* C18 amended: a handler starts, goes on after an await and makes requests
\* only for a request on its route whose token equals the configured API
\* key, whatever other requests are being served meanwhile, and every
\* request gets at most one answer. The body parser runs before the
\* authentication: a request whose body it rejects is answered with the
\* parser's status, 400 for malformed JSON, 413 for a body over the limit,
\* 415 for an unsupported charset or encoding, whatever its token, the right
\* one included, and nothing else runs. A request on a route whose body the
\* parser accepts is answered 401 when it has no token and 403 when it has
\* another token than the key, and the handler does not run.
C18_HandlerOnlyWithApiKey ==
    \A r \in Reqs :
        LET req == http.reqs[r]
            rejected == req.body \in {"malformed", "tooLarge", "unsupported"}
        IN
        /\ (req.handlerRan \/ req.pc = "await" \/ req.network > 0)
              => /\ Routed(req.target)
                 /\ ~rejected
                 /\ req.token = http.apiKey
                 /\ req.token # Undefined
                 /\ req.handlerRan
        /\ Len(req.statuses) = (IF req.pc = "responded" THEN 1 ELSE 0)
        /\ (req.pc # "idle" /\ rejected)
              => /\ req.pc = "responded"
                 /\ req.body = "malformed" => req.statuses = <<400>>
                 /\ req.body = "tooLarge" => req.statuses = <<413>>
                 /\ req.body = "unsupported" => req.statuses = <<415>>
        /\ (req.pc # "idle" /\ ~rejected /\ Routed(req.target)
              /\ req.token = Undefined)
              => /\ req.pc = "responded"
                 /\ req.statuses = <<401>>
        /\ (req.pc # "idle" /\ ~rejected /\ Routed(req.target)
              /\ req.token # Undefined /\ req.token # http.apiKey)
              => /\ req.pc = "responded"
                 /\ req.statuses = <<403>>

\* a request to the last route with another token and a well-formed body is
\* answered 403 while the handler of an authenticated request waits for its
\* second request
C18_Witness ==
    \E r, q \in Reqs :
        /\ http.apiKey = <<"k">>
        /\ http.reqs[r].pc = "responded"
        /\ http.reqs[r].target = <<"POST", "/show-issued-assets">>
        /\ http.reqs[r].token = <<"k", "k">>
        /\ http.reqs[r].body = "valid"
        /\ http.reqs[r].statuses = <<403>>
        /\ http.reqs[q].pc = "await"
        /\ http.reqs[q].target = <<"POST", "/issue-asset">>
        /\ http.reqs[q].network = 2

====
